---- MODULE Spec2Model ----
(***************************************************************************)
(* A model of src/reference-tracer.js: the ReferenceTracer class, its      *)
(* three entry strategies (iterateGlobalReferences, iterateCjsReferences,  *)
(* iterateEsmReferences) and the generator functions they delegate to.     *)
(*                                                                         *)
(* Every generator function of the source is a frame kind; a generator     *)
(* object is a stack of frames, a step of the model runs the code of the   *)
(* active frame from one suspension point (a yield, a yield*, a return) to *)
(* the next.  The tracer's variableStack is one variable shared by every   *)
(* generator of the tracer, as this.variableStack is in the source.        *)
(*                                                                         *)
(* The syntax tree, the scope graph and the trace map are the caller's     *)
(* inputs: Init draws them from the bounded sets Programs and TraceMaps.   *)
(***************************************************************************)
EXTENDS Integers, Sequences, FiniteSets, TLC

VARIABLES
    program,        \* the analysed program: statements and configured globals
    traceMap,       \* the caller's trace map
    mode,           \* options.mode: "legacy" or "strict"
    strategy,       \* the entry strategy the consumer calls
    consumers,      \* how many sequences the consumer creates on the tracer
    variableStack,  \* this.variableStack
    status,         \* per generator: idle, fresh, running, suspended, ...
    frames,         \* per generator: the stack of suspended generator frames
    out,            \* per generator: the match records the consumer received
    overlapped      \* history: two sequences of the tracer were live at once

vars == <<program, traceMap, mode, strategy, consumers, variableStack,
          status, frames, out, overlapped>>

\* The number of generator objects the consumer may create on one tracer.
NumGens == 2

Gens == 1..NumGens

-----------------------------------------------------------------------------
(* Trace maps.  A trace map is a tree of plain objects; a node is named by  *)
(* the property path that leads to it, and carries the payloads of its     *)
(* READ, CALL and CONSTRUCT markers (0: no marker) and whether it has the  *)
(* ESM marker.                                                             *)

NoKey == "<null>"

Mk(r, c, n, e) == [read |-> r, call |-> c, construct |-> n, esm |-> e]

NoMark == Mk(0, 0, 0, FALSE)

\* { G: {[READ], x: {[READ], [CALL], y: {[CALL],[CONSTRUCT]}}},
\*   H: {x: {[CALL]}}, x: {[READ], y: {[CALL]}} }
GlobalMap ==
    ( <<>> :> NoMark ) @@
    ( <<"G">> :> Mk(11, 0, 0, FALSE) ) @@
    ( <<"G", "x">> :> Mk(12, 13, 0, FALSE) ) @@
    ( <<"G", "x", "y">> :> Mk(0, 14, 15, FALSE) ) @@
    ( <<"H">> :> NoMark ) @@
    ( <<"H", "x">> :> Mk(0, 16, 0, FALSE) ) @@
    ( <<"x">> :> Mk(17, 0, 0, FALSE) ) @@
    ( <<"x", "y">> :> Mk(0, 18, 0, FALSE) )

\* { m: {[CALL], foo: {[READ], [CALL]}} }: a CommonJS-shaped module map
CjsMap ==
    ( <<>> :> NoMark ) @@
    ( <<"m">> :> Mk(0, 21, 0, FALSE) ) @@
    ( <<"m", "foo">> :> Mk(22, 23, 0, FALSE) )

\* the same with a READ marker at the module's own top level
CjsReadMap ==
    ( <<>> :> NoMark ) @@
    ( <<"m">> :> Mk(31, 0, 32, FALSE) ) @@
    ( <<"m", "foo">> :> Mk(33, 0, 0, FALSE) )

\* { m: {[CALL], default: {[READ], [CALL], foo: {[CALL]}}, foo: {[CALL]}} }:
\* a CommonJS-shaped map with a property of its own named "default"
CjsDefaultMap ==
    ( <<>> :> NoMark ) @@
    ( <<"m">> :> Mk(0, 41, 0, FALSE) ) @@
    ( <<"m", "default">> :> Mk(42, 43, 0, FALSE) ) @@
    ( <<"m", "default", "foo">> :> Mk(0, 44, 0, FALSE) ) @@
    ( <<"m", "foo">> :> Mk(0, 45, 0, FALSE) )

\* { m: {[ESM]: true, default: {[READ], foo: {[CALL]}}, foo: {[READ],[CALL]}} }
EsmMap ==
    ( <<>> :> NoMark ) @@
    ( <<"m">> :> Mk(0, 0, 0, TRUE) ) @@
    ( <<"m", "default">> :> Mk(51, 52, 0, FALSE) ) @@
    ( <<"m", "default", "foo">> :> Mk(0, 53, 0, FALSE) ) @@
    ( <<"m", "foo">> :> Mk(54, 55, 0, FALSE) )

TraceMaps == {GlobalMap, CjsMap, CjsReadMap, CjsDefaultMap, EsmMap}

\* The order in which Object.keys enumerates the keys of a trace-map node.
KeyOrder == <<"G", "H", "x", "y", "m", "default", "foo">>

-----------------------------------------------------------------------------
(* Programs.  A program is a sequence of top-level statements and the set  *)
(* of names the host configures as globals.  A "chain" statement is a root *)
(* (an identifier, or a call of require), optionally wrapped in a          *)
(* LogicalExpression, followed by up to two property accesses, in one of   *)
(* the syntactic contexts the tracer inspects.                             *)

St(kind, src, req, wrap, keys, ctx, tkind, tgt, pkey, specs) ==
    [kind |-> kind, src |-> src, req |-> req, wrap |-> wrap, keys |-> keys,
     ctx |-> ctx, tkind |-> tkind, tgt |-> tgt, pkey |-> pkey, specs |-> specs]

\* src.k1.k2 ; src.k1.k2() ; new src.k1.k2() ; f(src.k1.k2)
Use(src, keys, ctx) == St("chain", src, "", FALSE, keys, ctx, "none", "", "", <<>>)
\* (src || 0).k1.k2 ...
WrapUse(src, keys, ctx) == St("chain", src, "", TRUE, keys, ctx, "none", "", "", <<>>)
\* var tgt = src.k ; tgt = src.k ; var {pkey: tgt} = src.k ; var [tgt] = src.k ;
\* (tgt = src.k)() ; var {pkey: tgt = src.k} = {}
Bind(ctx, tkind, tgt, pkey, src, keys) ==
    St("chain", src, "", FALSE, keys, ctx, tkind, tgt, pkey, <<>>)
\* require(arg).k1.k2 in the same contexts
ReqUse(arg, keys, ctx) == St("chain", "require", arg, FALSE, keys, ctx, "none", "", "", <<>>)
ReqBind(ctx, tkind, tgt, pkey, arg, keys) ==
    St("chain", "require", arg, FALSE, keys, ctx, tkind, tgt, pkey, <<>>)
\* function name() {}
FunDecl(name) == St("fundecl", "", "", FALSE, <<>>, "", "none", name, "", <<>>)
\* one specifier of an import or export declaration; bound: the scope
\* analyser recorded a variable for the local name
Specifier(type, imported, loc, bound) ==
    [type |-> type, imported |-> imported, local |-> loc, bound |-> bound]
\* import <specs> from "source" ; export {local} from "source" ; export * from
Import(source, specs) == St("import", source, "", FALSE, <<>>, "", "none", "", "", specs)
ExportNamed(source, name) ==
    St("export", source, "", FALSE, <<>>, "", "none", "", "",
       <<Specifier("ExportSpecifier", name, name, FALSE)>>)
ExportAll(source) == St("exportall", source, "", FALSE, <<>>, "", "none", "", "", <<>>)

Prog(stmts, env) == [stmts |-> stmts, env |-> env]

HostGlobals == {"G", "H", "window", "require"}

-----------------------------------------------------------------------------
(* The syntax tree of the program.  Node 0 is "no node" (null), node 1 is  *)
(* the Program, statement s owns the nodes Base(s) .. Base(s) + 15.  A     *)
(* node carries the fields the tracer reads; key is what getPropertyName   *)
(* answers for a MemberExpression or a Property, argument what             *)
(* getStringIfConstant answers for a call's first argument (NoKey: null).  *)

Base(s) == s * 16

Nd(type, parent) ==
    [type |-> type, parent |-> parent, name |-> "", object |-> 0, callee |-> 0,
     left |-> 0, right |-> 0, init |-> 0, id |-> 0, key |-> NoKey, value |-> 0,
     properties |-> <<>>, local |-> 0, imported |-> "", source |-> "",
     specifiers |-> <<>>, argument |-> NoKey]

\* the node the first property access applies to
Inner(st, b) == IF st.wrap THEN b + 2 ELSE b + 1

\* the outermost node of the chain
Top(st, b) ==
    CASE Len(st.keys) = 0 -> Inner(st, b)
      [] Len(st.keys) = 1 -> b + 3
      [] OTHER            -> b + 4

\* the parent of the chain's outermost node
TopParent(st, b) == IF st.ctx = "expr" THEN b ELSE b + 5

ChainNode(st, b, o) ==
    CASE o = 0 ->
           Nd(IF st.ctx \in {"decl", "default"} THEN "VariableDeclaration"
                                               ELSE "ExpressionStatement", 1)
      [] o = 1 ->
           LET up == IF st.wrap THEN b + 2
                     ELSE IF Len(st.keys) >= 1 THEN b + 3 ELSE TopParent(st, b)
           IN  IF st.req = ""
               THEN [Nd("Identifier", up) EXCEPT !.name = st.src]
               ELSE [Nd("CallExpression", up) EXCEPT !.callee = b + 9,
                                                     !.argument = st.req]
      [] o = 2 ->
           Nd("LogicalExpression",
              IF Len(st.keys) >= 1 THEN b + 3 ELSE TopParent(st, b))
      [] o = 3 ->
           [Nd("MemberExpression",
               IF Len(st.keys) >= 2 THEN b + 4 ELSE TopParent(st, b))
              EXCEPT !.object = Inner(st, b), !.key = st.keys[1]]
      [] o = 4 ->
           [Nd("MemberExpression", TopParent(st, b))
              EXCEPT !.object = b + 3, !.key = st.keys[2]]
      [] o = 5 ->
           CASE st.ctx = "call" ->
                  [Nd("CallExpression", b) EXCEPT !.callee = Top(st, b)]
             [] st.ctx = "new" ->
                  [Nd("NewExpression", b) EXCEPT !.callee = Top(st, b)]
             [] st.ctx = "arg" ->
                  [Nd("CallExpression", b) EXCEPT !.callee = b + 11]
             [] st.ctx = "decl" ->
                  [Nd("VariableDeclarator", b)
                     EXCEPT !.id = b + 6, !.init = Top(st, b)]
             [] st.ctx = "assign" ->
                  [Nd("AssignmentExpression", b)
                     EXCEPT !.left = b + 6, !.right = Top(st, b)]
             [] st.ctx = "assigncall" ->
                  [Nd("AssignmentExpression", b + 10)
                     EXCEPT !.left = b + 6, !.right = Top(st, b)]
             [] st.ctx = "default" ->
                  [Nd("AssignmentPattern", b + 7)
                     EXCEPT !.left = b + 6, !.right = Top(st, b)]
             [] OTHER -> Nd("None", 0)
      [] o = 6 ->
           CASE st.tkind = "id" ->
                  [Nd("Identifier", b + 5) EXCEPT !.name = st.tgt]
             [] st.tkind \in {"obj", "objdef"} ->
                  [Nd("ObjectPattern", b + 5) EXCEPT !.properties = <<b + 7>>]
             [] st.tkind = "array" -> Nd("ArrayPattern", b + 5)
             [] OTHER -> Nd("None", 0)
      [] o = 7 ->
           IF st.ctx = "default"
           THEN [Nd("Property", b + 13) EXCEPT !.key = st.pkey, !.value = b + 5]
           ELSE [Nd("Property", b + 6)
                   EXCEPT !.key = st.pkey,
                          !.value = IF st.tkind = "objdef" THEN b + 12 ELSE b + 8]
      [] o = 8 ->
           [Nd("Identifier",
               CASE st.tkind = "objdef" -> b + 12
                 [] st.tkind = "array"  -> b + 6
                 [] OTHER               -> b + 7)
              EXCEPT !.name = st.tgt]
      [] o = 9  -> [Nd("Identifier", b + 1) EXCEPT !.name = "require"]
      [] o = 10 -> [Nd("CallExpression", b) EXCEPT !.callee = b + 5]
      [] o = 11 -> [Nd("Identifier", b + 5) EXCEPT !.name = "f"]
      [] o = 12 -> [Nd("AssignmentPattern", b + 7) EXCEPT !.left = b + 8]
      [] o = 13 -> [Nd("ObjectPattern", b + 14) EXCEPT !.properties = <<b + 7>>]
      [] o = 14 -> [Nd("VariableDeclarator", b)
                      EXCEPT !.id = b + 13, !.init = b + 15]
      [] OTHER  -> Nd("ObjectExpression", b + 14)

ModuleNode(st, b, o) ==
    CASE o = 0 ->
           [Nd(CASE st.kind = "import"    -> "ImportDeclaration"
                 [] st.kind = "export"    -> "ExportNamedDeclaration"
                 [] OTHER                 -> "ExportAllDeclaration", 1)
              EXCEPT !.source = st.src,
                     !.specifiers = [k \in 1..Len(st.specs) |-> b + k]]
      [] o \in 1..2 ->
           [Nd(st.specs[o].type, b)
              EXCEPT !.imported = st.specs[o].imported, !.local = b + 2 + o]
      [] OTHER ->
           [Nd("Identifier", b + o - 2) EXCEPT !.name = st.specs[o - 2].local]

Node(n) ==
    IF n = 1 THEN Nd("Program", 0)
    ELSE LET s  == n \div 16
             st == program.stmts[s]
         IN  CASE st.kind = "chain"   -> ChainNode(st, Base(s), n % 16)
               [] st.kind = "fundecl" -> Nd("FunctionDeclaration", 1)
               [] OTHER               -> ModuleNode(st, Base(s), n % 16)

\* programNode.body
Body == [s \in 1..Len(program.stmts) |-> Base(s)]

-----------------------------------------------------------------------------
(* The scope graph the scope analyser hands to the tracer.  A script has   *)
(* the global scope alone; a module has a module scope under it, which     *)
(* owns the declared names.  A variable is a (scope, name) pair.           *)

IsModule == \E s \in 1..Len(program.stmts) :
                program.stmts[s].kind \in {"import", "export", "exportall"}

DeclScope == IF IsModule THEN "module" ELSE "global"

\* the names statement s declares (var, function and import bindings)
DeclaredBy(s) ==
    LET st == program.stmts[s]
    IN  CASE st.kind = "chain" /\ st.ctx \in {"decl", "default"}
               /\ st.tkind # "none" -> {st.tgt}
          [] st.kind = "fundecl"    -> {st.tgt}
          [] st.kind = "import"     ->
               {st.specs[k].local : k \in {j \in 1..Len(st.specs) : st.specs[j].bound}}
          [] OTHER                  -> {}

Declared == UNION {DeclaredBy(s) : s \in 1..Len(program.stmts)}

Var(scope, name) == [scope |-> scope, name |-> name]

\* null, where the source has a Variable or null
NoVar == Var("none", "")

\* scope.set: the names the scope owns
ScopeSet(scope) ==
    CASE scope = "global" -> program.env \cup (IF IsModule THEN {} ELSE Declared)
      [] scope = "module" -> IF IsModule THEN Declared ELSE {}
      [] OTHER            -> {}

\* scope.upper
Upper(scope) == IF scope = "module" THEN "global" ELSE "none"

\* variable.defs.length
Defs(v) ==
    IF v.scope = DeclScope
    THEN Cardinality({s \in 1..Len(program.stmts) : v.name \in DeclaredBy(s)})
    ELSE 0

\* the references of statement s, in source order
StmtRefs(s) ==
    LET st == program.stmts[s]
        b  == Base(s)
        R(n, name, rd) == <<[identifier |-> n, name |-> name, read |-> rd]>>
    IN  IF st.kind # "chain" THEN <<>>
        ELSE (CASE st.tkind = "id"   -> R(b + 6, st.tgt, FALSE)
                [] st.tkind = "none" -> <<>>
                [] OTHER             -> R(b + 8, st.tgt, FALSE))
             \o (IF st.ctx = "arg" THEN R(b + 11, "f", TRUE) ELSE <<>>)
             \o (IF st.req = "" THEN R(b + 1, st.src, TRUE)
                                ELSE R(b + 9, "require", TRUE))

RECURSIVE RefsUpTo(_)
RefsUpTo(s) == IF s = 0 THEN <<>> ELSE RefsUpTo(s - 1) \o StmtRefs(s)

\* the variable the scope analyser resolved a reference to the name to
Resolved(name) ==
    CASE name \in Declared    -> Var(DeclScope, name)
      [] name \in program.env -> Var("global", name)
      [] OTHER                -> NoVar

\* variable.references
References(v) ==
    SelectSeq(RefsUpTo(Len(program.stmts)), LAMBDA r : Resolved(r.name) = v)

-----------------------------------------------------------------------------
(* Trace-map values as the tracer holds them.  A value is a node of the    *)
(* caller's map (wrap = "none"), or one of the two objects                 *)
(* iterateEsmReferences builds around a CommonJS-shaped module map:        *)
(* { default: map } ("strict") and Object.assign({ default: map }, map)    *)
(* ("legacy").                                                             *)

READ == "READ"
CALL == "CALL"
CONSTRUCT == "CONSTRUCT"

TmAt(at) == [wrap |-> "none", at |-> at]

Own(at, key) == Append(at, key) \in DOMAIN traceMap

\* has(traceMap, key)
has(tm, key) ==
    CASE tm.wrap = "none"   -> Own(tm.at, key)
      [] tm.wrap = "strict" -> key = "default"
      [] OTHER              -> key = "default" \/ Own(tm.at, key)

\* traceMap[key], for a key the map has
Get(tm, key) ==
    CASE tm.wrap = "none"   -> TmAt(Append(tm.at, key))
      [] tm.wrap = "strict" -> TmAt(tm.at)
      [] OTHER              ->
           \* Object.assign copies the map's own "default" over the wrapper's
           IF key = "default" /\ ~Own(tm.at, "default")
           THEN TmAt(tm.at) ELSE TmAt(Append(tm.at, key))

\* traceMap[READ], traceMap[CALL], traceMap[CONSTRUCT]: the payload, 0 if none
Marker(tm, type) ==
    IF tm.wrap = "strict" THEN 0
    ELSE CASE type = READ -> traceMap[tm.at].read
           [] type = CALL -> traceMap[tm.at].call
           [] OTHER       -> traceMap[tm.at].construct

\* Object.keys(traceMap) of a node of the caller's map
Keys(tm) == SelectSeq(KeyOrder, LAMBDA k : Own(tm.at, k))

-----------------------------------------------------------------------------
(* Generator frames and match records.                                     *)

Rec(node, path, type, entry) ==
    [node |-> node, path |-> path, type |-> type, entry |-> entry]

NoReport == Rec(0, <<>>, "none", 0)

Frame(fn, pc, node, path, tm, flag, variable) ==
    [fn |-> fn, pc |-> pc, node |-> node, path |-> path, tm |-> tm,
     flag |-> flag, variable |-> variable, i |-> 1, j |-> 1, report |-> NoReport]

VarFrame(variable, path, tm, shouldReport) ==
    Frame("variable", "start", 0, path, tm, shouldReport, variable)
PropFrame(node, path, tm) == Frame("property", "start", node, path, tm, FALSE, NoVar)
LhsFrame(node, path, tm) == Frame("lhs", "start", node, path, tm, FALSE, NoVar)
ImportFrame(node, path, tm) == Frame("import", "start", node, path, tm, FALSE, NoVar)
EntryFrame(fn, pc) == Frame(fn, pc, 0, <<>>, TmAt(<<>>), FALSE, NoVar)

\* what a step of a frame does: go on (cont), start a generator it delegates
\* to (call), finish (ret), or hand a record out (yield)
Cont(f) == [kind |-> "cont", self |-> f, callee |-> f, rec |-> NoReport]
Call(f, c) == [kind |-> "call", self |-> f, callee |-> c, rec |-> NoReport]
Yield(f, r) == [kind |-> "yield", self |-> f, callee |-> f, rec |-> r]
Ret(f) == [kind |-> "ret", self |-> f, callee |-> f, rec |-> NoReport]

-----------------------------------------------------------------------------
(* The tracer.                                                             *)

SENTINEL_TYPE ==
    {"ExpressionStatement", "VariableDeclaration", "FunctionDeclaration",
     "ImportDeclaration", "ExportNamedDeclaration", "ExportAllDeclaration",
     "ExportDefaultDeclaration", "ArrayExpression", "ArrowFunctionExpression",
     "AssignmentExpression", "CallExpression", "ClassExpression",
     "FunctionExpression", "MemberExpression", "NewExpression",
     "ObjectExpression", "AssignmentPattern", "Program", "VariableDeclarator"}

IMPORT_TYPE ==
    {"ImportDeclaration", "ExportAllDeclaration", "ExportDefaultDeclaration",
     "ExportNamedDeclaration"}

\* the constructor's default for options.globalObjectNames
globalObjectNames == <<"global", "self", "window">>

\* this.globalScope.set.get(key)
GlobalGet(key) ==
    IF key \in ScopeSet("global") THEN Var("global", key) ELSE NoVar

\* a faulty variant, for sensitivity: the test forgets the declaring definitions
ModifiedNullOnly(variable) == variable = NoVar

\* the test both loops of iterateGlobalReferences and iterateCjsReferences
\* make: variable == null || variable.defs.length !== 0
Modified(variable) == variable = NoVar \/ Defs(variable) # 0

iterateGlobalReferences(f) ==
    LET keys == Keys(TmAt(<<>>))
    IN  IF f.pc = "keys"
        THEN IF f.i > Len(keys)
             THEN Cont([f EXCEPT !.pc = "names", !.i = 1])
             ELSE LET key      == keys[f.i]
                      variable == GlobalGet(key)
                      next     == [f EXCEPT !.i = f.i + 1]
                  IN  IF Modified(variable) THEN Cont(next)
                      ELSE Call([next EXCEPT !.variable = variable],
                                VarFrame(variable, <<key>>,
                                         Get(TmAt(<<>>), key), TRUE))
        ELSE IF f.i > Len(globalObjectNames)
             THEN Ret(f)
             ELSE LET key      == globalObjectNames[f.i]
                      variable == GlobalGet(key)
                      next     == [f EXCEPT !.i = f.i + 1]
                  IN  IF Modified(variable) THEN Cont(next)
                      ELSE Call([next EXCEPT !.variable = variable],
                                VarFrame(variable, <<>>, TmAt(<<>>), FALSE))

iterateCjsReferences(f) ==
    CASE f.pc = "start" ->
           LET variable == GlobalGet("require")
           IN  IF Modified(variable) THEN Ret(f)
               ELSE Cont([f EXCEPT !.pc = "loop", !.variable = variable])
      [] f.pc = "loop" ->
           LET refs == References(f.variable)
           IN  IF f.i > Len(refs) THEN Ret(f)
               ELSE LET reference == refs[f.i]
                        reqNode   == reference.identifier
                        callNode  == Node(reqNode).parent
                        key       == Node(callNode).argument
                        next      == [f EXCEPT !.i = f.i + 1]
                    IN  IF \/ ~reference.read
                           \/ Node(callNode).type # "CallExpression"
                           \/ Node(callNode).callee # reqNode
                        THEN Cont(next)
                        ELSE IF key = NoKey \/ ~has(TmAt(<<>>), key)
                        THEN Cont(next)
                        ELSE LET nextTraceMap == Get(TmAt(<<>>), key)
                                 path         == <<key>>
                             IN  IF Marker(nextTraceMap, READ) # 0
                                 THEN Yield([f EXCEPT !.pc = "prop",
                                               !.node = callNode, !.path = path,
                                               !.tm = nextTraceMap],
                                            Rec(callNode, path, READ,
                                                Marker(nextTraceMap, READ)))
                                 ELSE Call(next, PropFrame(callNode, path,
                                                           nextTraceMap))
      [] OTHER ->
           Call([f EXCEPT !.pc = "loop", !.i = f.i + 1],
                PropFrame(f.node, f.path, f.tm))

\* exceptDefault, applied by Array#filter: the path without a "default" at
\* index 1
FilterDefault(path) ==
    IF Len(path) >= 2 /\ path[2] = "default"
    THEN <<path[1]>> \o SubSeq(path, 3, Len(path))
    ELSE path

\* the map iterateEsmReferences hands to _iterateImportReferences
ImportMap(nextTraceMap, esm) ==
    IF esm THEN nextTraceMap
    ELSE IF mode = "legacy" THEN [nextTraceMap EXCEPT !.wrap = "legacy"]
    ELSE [nextTraceMap EXCEPT !.wrap = "strict"]

\* a faulty variant, for sensitivity: the length test is off by one
ReportableFromLengthOne(report) == Len(report.path) >= 1 \/ report.type # READ

\* the test on a report of a module whose map has no ESM marker
Reportable(report) == Len(report.path) >= 2 \/ report.type # READ

iterateEsmReferences(f) ==
    CASE f.pc = "body" ->
           IF f.i > Len(Body) THEN Ret(f)
           ELSE LET node     == Body[f.i]
                    moduleId == Node(node).source
                    next     == [f EXCEPT !.i = f.i + 1]
                IN  IF Node(node).type \notin IMPORT_TYPE \/ moduleId = ""
                    THEN Cont(next)
                    ELSE IF ~has(TmAt(<<>>), moduleId) THEN Cont(next)
                    ELSE LET nextTraceMap == Get(TmAt(<<>>), moduleId)
                             path         == <<moduleId>>
                             inside       == [f EXCEPT !.pc = "spec", !.j = 1,
                                                !.node = node, !.path = path,
                                                !.tm = nextTraceMap]
                         IN  IF Marker(nextTraceMap, READ) # 0
                             THEN Yield(inside, Rec(node, path, READ,
                                                    Marker(nextTraceMap, READ)))
                             ELSE Cont(inside)
      [] f.pc = "spec" ->
           IF Node(f.node).type = "ExportAllDeclaration"
           THEN LET keys == Keys(f.tm)
                IN  IF f.j > Len(keys)
                    THEN Cont([f EXCEPT !.pc = "body", !.i = f.i + 1])
                    ELSE LET key            == keys[f.j]
                             exportTraceMap == Get(f.tm, key)
                             next           == [f EXCEPT !.j = f.j + 1]
                         IN  IF Marker(exportTraceMap, READ) # 0
                             THEN Yield(next, Rec(f.node, Append(f.path, key), READ,
                                                  Marker(exportTraceMap, READ)))
                             ELSE Cont(next)
           ELSE LET specifiers == Node(f.node).specifiers
                IN  IF f.j > Len(specifiers)
                    THEN Cont([f EXCEPT !.pc = "body", !.i = f.i + 1])
                    ELSE LET esm == traceMap[f.tm.at].esm
                         IN  Call([f EXCEPT !.j = f.j + 1, !.flag = esm],
                                  ImportFrame(specifiers[f.j], f.path,
                                              ImportMap(f.tm, esm)))
      [] OTHER ->
           LET report == [f.report EXCEPT !.path = FilterDefault(f.report.path)]
               next   == [f EXCEPT !.pc = "spec", !.report = NoReport]
           IN  IF Reportable(report) THEN Yield(next, report) ELSE Cont(next)

\* getInnermostScope(this.globalScope, node): the scope analyser's answer
InnermostScope(node) == DeclScope

RECURSIVE FindFrom(_, _)
FindFrom(scope, name) ==
    IF scope = "none" THEN NoVar
    ELSE IF name \in ScopeSet(scope) THEN Var(scope, name)
    ELSE FindFrom(Upper(scope), name)

_findVariable(node) == FindFrom(InnermostScope(node), Node(node).name)


\* the loop of _iterateVariableReferences, between its push and its pop
_iterateVariableReferences(f) ==
    LET refs == References(f.variable)
    IN  IF f.pc = "loop"
        THEN IF f.i > Len(refs) THEN Ret(f)
             ELSE LET reference == refs[f.i]
                      node      == reference.identifier
                      next      == [f EXCEPT !.i = f.i + 1]
                  IN  IF ~reference.read THEN Cont(next)
                      ELSE IF f.flag /\ Marker(f.tm, READ) # 0
                      THEN Yield([f EXCEPT !.pc = "prop", !.node = node],
                                 Rec(node, f.path, READ, Marker(f.tm, READ)))
                      ELSE Call(next, PropFrame(node, f.path, f.tm))
        ELSE Call([f EXCEPT !.pc = "loop", !.i = f.i + 1],
                  PropFrame(f.node, f.path, f.tm))

\* while (!SENTINEL_TYPE.test(node.parent.type)) node = node.parent
RECURSIVE Climb(_)
Climb(node) ==
    IF Node(Node(node).parent).type \in SENTINEL_TYPE THEN node
    ELSE Climb(Node(node).parent)

_iteratePropertyReferences(f) ==
    LET node    == Climb(f.node)
        parent  == Node(node).parent
        P       == Node(parent)
        done    == [f EXCEPT !.pc = "ret"]
    IN  CASE f.pc = "start" /\ P.type = "MemberExpression" ->
               IF P.object = node
               THEN LET key == P.key
                    IN  IF key = NoKey \/ ~has(f.tm, key) THEN Ret(f)
                        ELSE LET path         == Append(f.path, key)
                                 nextTraceMap == Get(f.tm, key)
                             IN  IF Marker(nextTraceMap, READ) # 0
                                 THEN Yield([f EXCEPT !.pc = "member",
                                               !.node = parent, !.path = path,
                                               !.tm = nextTraceMap],
                                            Rec(parent, path, READ,
                                                Marker(nextTraceMap, READ)))
                                 ELSE Call(done, PropFrame(parent, path,
                                                           nextTraceMap))
               ELSE Ret(f)
          [] f.pc = "start" /\ P.type = "CallExpression" ->
               IF P.callee = node /\ Marker(f.tm, CALL) # 0
               THEN Yield(done, Rec(parent, f.path, CALL, Marker(f.tm, CALL)))
               ELSE Ret(f)
          [] f.pc = "start" /\ P.type = "NewExpression" ->
               IF P.callee = node /\ Marker(f.tm, CONSTRUCT) # 0
               THEN Yield(done, Rec(parent, f.path, CONSTRUCT,
                                    Marker(f.tm, CONSTRUCT)))
               ELSE Ret(f)
          [] f.pc = "start" /\ P.type = "AssignmentExpression" ->
               IF P.right = node
               THEN Call([f EXCEPT !.pc = "assign", !.node = parent],
                         LhsFrame(P.left, f.path, f.tm))
               ELSE Ret(f)
          [] f.pc = "start" /\ P.type = "AssignmentPattern" ->
               IF P.right = node
               THEN Call(done, LhsFrame(P.left, f.path, f.tm))
               ELSE Ret(f)
          [] f.pc = "start" /\ P.type = "VariableDeclarator" ->
               IF P.init = node
               THEN Call(done, LhsFrame(P.id, f.path, f.tm))
               ELSE Ret(f)
          [] f.pc \in {"member", "assign"} ->
               \* the recursion on the member or assignment expression itself
               Call(done, PropFrame(f.node, f.path, f.tm))
          [] OTHER -> Ret(f)

\* a faulty variant, for sensitivity: the destructured key is not added to the path
NextPathUnextended(path, key) == path

\* const nextPath = path.concat(key)
NextPath(path, key) == Append(path, key)

_iterateLhsReferences(f) ==
    LET patternNode == Node(f.node)
        done        == [f EXCEPT !.pc = "ret"]
    IN  CASE f.pc = "start" /\ patternNode.type = "Identifier" ->
               LET variable == _findVariable(f.node)
               IN  IF variable # NoVar
                   THEN Call(done, VarFrame(variable, f.path, f.tm, FALSE))
                   ELSE Ret(f)
          [] f.pc \in {"start", "props", "value"}
               /\ patternNode.type = "ObjectPattern" ->
               IF f.i > Len(patternNode.properties) THEN Ret(f)
               ELSE LET property == patternNode.properties[f.i]
                        key      == Node(property).key
                        next     == [f EXCEPT !.pc = "props", !.i = f.i + 1]
                    IN  IF key = NoKey \/ ~has(f.tm, key) THEN Cont(next)
                        ELSE LET nextPath     == NextPath(f.path, key)
                                 nextTraceMap == Get(f.tm, key)
                                 inner        == LhsFrame(Node(property).value,
                                                          nextPath, nextTraceMap)
                             IN  IF f.pc # "value" /\ Marker(nextTraceMap, READ) # 0
                                 THEN Yield([f EXCEPT !.pc = "value"],
                                            Rec(property, nextPath, READ,
                                                Marker(nextTraceMap, READ)))
                                 ELSE Call(next, inner)
          [] f.pc = "start" /\ patternNode.type = "AssignmentPattern" ->
               Call(done, LhsFrame(patternNode.left, f.path, f.tm))
          [] OTHER -> Ret(f)

_iterateImportReferences(f) ==
    LET specifierNode == Node(f.node)
        type          == specifierNode.type
        done          == [f EXCEPT !.pc = "ret"]
    IN  CASE f.pc = "start"
               /\ type \in {"ImportSpecifier", "ImportDefaultSpecifier"} ->
               LET key == IF type = "ImportDefaultSpecifier" THEN "default"
                          ELSE specifierNode.imported
               IN  IF ~has(f.tm, key) THEN Ret(f)
                   ELSE LET path         == Append(f.path, key)
                            nextTraceMap == Get(f.tm, key)
                        IN  IF Marker(nextTraceMap, READ) # 0
                            THEN Yield([f EXCEPT !.pc = "var", !.path = path,
                                          !.tm = nextTraceMap],
                                       Rec(f.node, path, READ,
                                           Marker(nextTraceMap, READ)))
                            ELSE Call(done, VarFrame(_findVariable(specifierNode.local),
                                                     path, nextTraceMap, FALSE))
          [] f.pc = "var" ->
               Call(done, VarFrame(_findVariable(specifierNode.local),
                                   f.path, f.tm, FALSE))
          [] f.pc = "start" /\ type = "ImportNamespaceSpecifier" ->
               Call(done, VarFrame(_findVariable(specifierNode.local),
                                   f.path, f.tm, FALSE))
          [] f.pc = "start" /\ type = "ExportSpecifier" ->
               LET key == Node(specifierNode.local).name
               IN  IF ~has(f.tm, key) THEN Ret(f)
                   ELSE LET path         == Append(f.path, key)
                            nextTraceMap == Get(f.tm, key)
                        IN  IF Marker(nextTraceMap, READ) # 0
                            THEN Yield(done, Rec(f.node, path, READ,
                                                 Marker(nextTraceMap, READ)))
                            ELSE Ret(f)
          [] OTHER -> Ret(f)

-----------------------------------------------------------------------------
(* The programs, as their source text, and the inputs of a run.            *)

DefaultX == Specifier("ImportDefaultSpecifier", "", "x", TRUE)
NamedFoo == Specifier("ImportSpecifier", "foo", "foo", TRUE)
NamespaceNs == Specifier("ImportNamespaceSpecifier", "", "ns", TRUE)
UnboundX == Specifier("ImportDefaultSpecifier", "", "x", FALSE)

\* G.x.y()
DirectProgram == Prog(<<Use("G", <<"x", "y">>, "call")>>, HostGlobals)
\* var a = G.x; a.y()
AliasProgram ==
    Prog(<<Bind("decl", "id", "a", "", "G", <<"x">>),
           Use("a", <<"y">>, "call")>>, HostGlobals)
\* var {y} = G.x; y()
DestructuringProgram ==
    Prog(<<Bind("decl", "obj", "y", "y", "G", <<"x">>),
           Use("y", <<>>, "call")>>, HostGlobals)
\* var {y: b} = G.x; b()
RenamingProgram ==
    Prog(<<Bind("decl", "obj", "b", "y", "G", <<"x">>),
           Use("b", <<>>, "call")>>, HostGlobals)
\* var a = G.x; a = G.x; a.y()
TwiceAssignedProgram ==
    Prog(<<Bind("decl", "id", "a", "", "G", <<"x">>),
           Bind("assign", "id", "a", "", "G", <<"x">>),
           Use("a", <<"y">>, "call")>>, HostGlobals)
\* G.x(); H.x()
TwoRootsProgram ==
    Prog(<<Use("G", <<"x">>, "call"), Use("H", <<"x">>, "call")>>, HostGlobals)
\* function window() {} window.x
ShadowProgram ==
    Prog(<<FunDecl("window"), Use("window", <<"x">>, "expr")>>, HostGlobals)

GlobalPrograms ==
    { DirectProgram, AliasProgram, DestructuringProgram, RenamingProgram,
      TwiceAssignedProgram, TwoRootsProgram, ShadowProgram,
      \* G.x.y() where the host configures no global
      Prog(<<Use("G", <<"x", "y">>, "call")>>, {}),
      \* G
      Prog(<<Use("G", <<>>, "expr")>>, HostGlobals),
      \* new G.x.y()
      Prog(<<Use("G", <<"x", "y">>, "new")>>, HostGlobals),
      \* (G || 0).x.y()
      Prog(<<WrapUse("G", <<"x", "y">>, "call")>>, HostGlobals),
      \* f(G.x)
      Prog(<<Use("G", <<"x">>, "arg")>>, HostGlobals),
      \* G[k].y()
      Prog(<<Use("G", <<NoKey, "y">>, "call")>>, HostGlobals),
      \* window.x.y()
      Prog(<<Use("window", <<"x", "y">>, "call")>>, HostGlobals),
      \* var G = window; G.x
      Prog(<<Bind("decl", "id", "G", "", "window", <<>>),
             Use("G", <<"x">>, "expr")>>, HostGlobals),
      \* var a = a; a.x()
      Prog(<<Bind("decl", "id", "a", "", "a", <<>>),
             Use("a", <<"x">>, "call")>>, HostGlobals),
      \* var a = G; a = a; a.x.y()
      Prog(<<Bind("decl", "id", "a", "", "G", <<>>),
             Bind("assign", "id", "a", "", "a", <<>>),
             Use("a", <<"x", "y">>, "call")>>, HostGlobals),
      \* var a = G; var b = a; a = b; b.x.y()
      Prog(<<Bind("decl", "id", "a", "", "G", <<>>),
             Bind("decl", "id", "b", "", "a", <<>>),
             Bind("assign", "id", "a", "", "b", <<>>),
             Use("b", <<"x", "y">>, "call")>>, HostGlobals),
      \* u = G.x; u.y()     (u undeclared: the resolver finds no variable)
      Prog(<<Bind("assign", "id", "u", "", "G", <<"x">>),
             Use("u", <<"y">>, "call")>>, HostGlobals),
      \* var a; (a = G.x.y)(); a()
      Prog(<<FunDecl("a"),
             Bind("assigncall", "id", "a", "", "G", <<"x", "y">>),
             Use("a", <<>>, "call")>>, HostGlobals),
      \* var {k: a = G.x} = {}; a.y()
      Prog(<<Bind("default", "id", "a", "k", "G", <<"x">>),
             Use("a", <<"y">>, "call")>>, HostGlobals),
      \* var [a] = G.x; a.y()
      Prog(<<Bind("decl", "array", "a", "", "G", <<"x">>),
             Use("a", <<"y">>, "call")>>, HostGlobals),
      \* var {y = 0} = G.x; y()
      Prog(<<Bind("decl", "objdef", "y", "y", "G", <<"x">>),
             Use("y", <<>>, "call")>>, HostGlobals),
      \* var {z: a, y: b} ... a property the map does not have
      Prog(<<Bind("decl", "obj", "a", "z", "G", <<"x">>),
             Use("a", <<>>, "call")>>, HostGlobals) }

CjsPrograms ==
    { \* require("m").foo()
      Prog(<<ReqUse("m", <<"foo">>, "call")>>, HostGlobals),
      \* require("m")(); new (require("m"))()
      Prog(<<ReqUse("m", <<>>, "call"), ReqUse("m", <<>>, "new")>>, HostGlobals),
      \* var c = require("m"); c.foo()
      Prog(<<ReqBind("decl", "id", "c", "", "m", <<>>),
             Use("c", <<"foo">>, "call")>>, HostGlobals),
      \* var {foo} = require("m"); foo()
      Prog(<<ReqBind("decl", "obj", "foo", "foo", "m", <<>>),
             Use("foo", <<>>, "call")>>, HostGlobals),
      \* require(name).foo()
      Prog(<<ReqUse(NoKey, <<"foo">>, "call")>>, HostGlobals),
      \* require("other").foo()
      Prog(<<ReqUse("other", <<"foo">>, "call")>>, HostGlobals),
      \* function require() {} require("m").foo()
      Prog(<<FunDecl("require"), ReqUse("m", <<"foo">>, "call")>>, HostGlobals),
      \* f(require); var c = require("m"); var d = require("m"); c.foo
      Prog(<<Use("require", <<>>, "arg"),
             ReqBind("decl", "id", "c", "", "m", <<>>),
             ReqBind("assign", "id", "c", "", "m", <<>>),
             Use("c", <<"foo">>, "expr")>>, HostGlobals) }

EsmPrograms ==
    { \* import x from "m"
      Prog(<<Import("m", <<DefaultX>>)>>, HostGlobals),
      \* import x from "m"; x()
      Prog(<<Import("m", <<DefaultX>>), Use("x", <<>>, "call")>>, HostGlobals),
      \* import x from "m"; x.foo()
      Prog(<<Import("m", <<DefaultX>>), Use("x", <<"foo">>, "call")>>, HostGlobals),
      \* import x from "m"; x.default.foo()
      Prog(<<Import("m", <<DefaultX>>),
             Use("x", <<"default", "foo">>, "call")>>, HostGlobals),
      \* import x, {foo} from "m"; foo; x.foo
      Prog(<<Import("m", <<DefaultX, NamedFoo>>), Use("foo", <<>>, "expr"),
             Use("x", <<"foo">>, "expr")>>, HostGlobals),
      \* import {foo} from "m"; foo()
      Prog(<<Import("m", <<NamedFoo>>), Use("foo", <<>>, "call")>>, HostGlobals),
      \* import * as ns from "m"; ns(); ns.foo()
      Prog(<<Import("m", <<NamespaceNs>>), Use("ns", <<>>, "call"),
             Use("ns", <<"foo">>, "call")>>, HostGlobals),
      \* import x from "m"; var a = x; a.foo()
      Prog(<<Import("m", <<DefaultX>>), Bind("decl", "id", "a", "", "x", <<>>),
             Use("a", <<"foo">>, "call")>>, HostGlobals),
      \* export {foo} from "m"; export {default} from "m"
      Prog(<<ExportNamed("m", "foo"), ExportNamed("m", "default")>>, HostGlobals),
      \* export * from "m"
      Prog(<<ExportAll("m")>>, HostGlobals),
      \* export {foo}; import x from "other"; G.x
      Prog(<<ExportNamed("", "foo"), Import("other", <<DefaultX>>),
             Use("G", <<"x">>, "expr")>>, HostGlobals),
      \* import x from "m"; function window() {} window.x; require("m").foo
      Prog(<<Import("m", <<DefaultX>>), FunDecl("window"),
             Use("window", <<"x">>, "expr"),
             ReqUse("m", <<"foo">>, "expr")>>, HostGlobals),
      \* import x from "m", in a scope graph that has no variable for x
      Prog(<<Import("m", <<UnboundX>>)>>, HostGlobals) }

Programs == GlobalPrograms \cup CjsPrograms \cup EsmPrograms

Modes == {"legacy", "strict"}

Strategies == {"global", "cjs", "esm"}

-----------------------------------------------------------------------------
(* The consumer and the generators.                                        *)

Live(g) == status[g] \in {"fresh", "running", "suspended"}

Running == \E g \in Gens : status[g] = "running"

Range(s) == {s[k] : k \in 1..Len(s)}

\* the frame whose code runs next: the innermost one, or iterateEsmReferences
\* when its for-of loop holds a report of the generator it iterates
ActiveIndex(g) ==
    IF frames[g][1].fn = "esm" /\ frames[g][1].pc = "filter"
    THEN 1 ELSE Len(frames[g])

Active(g) == frames[g][ActiveIndex(g)]

\* Array.prototype.pop, n times
Pop(stack, n) == SubSeq(stack, 1, IF Len(stack) > n THEN Len(stack) - n ELSE 0)

\* the calls of _iterateVariableReferences of generator g that are between
\* their push and their pop
Entered(g) ==
    SelectSeq(frames[g], LAMBDA f : f.fn = "variable" /\ f.pc # "start")

\* a report of a generator iterateEsmReferences iterates with for-of is
\* handed to that loop; any other reaches the consumer
Intercepted(g) ==
    /\ ActiveIndex(g) > 1
    /\ frames[g][1].fn = "esm"
    /\ ~frames[g][1].flag

Commit(g, res) ==
    LET a  == ActiveIndex(g)
        fs == [frames[g] EXCEPT ![a] = res.self]
    IN  CASE res.kind = "cont" ->
               /\ frames' = [frames EXCEPT ![g] = fs]
               /\ UNCHANGED <<status, out>>
          [] res.kind = "call" ->
               /\ frames' = [frames EXCEPT ![g] = Append(fs, res.callee)]
               /\ UNCHANGED <<status, out>>
          [] res.kind = "ret" ->
               /\ frames' = [frames EXCEPT ![g] = SubSeq(fs, 1, Len(fs) - 1)]
               /\ status' = IF Len(fs) = 1 THEN [status EXCEPT ![g] = "done"]
                            ELSE status
               /\ UNCHANGED out
          [] OTHER ->
               IF Intercepted(g)
               THEN /\ frames' = [frames EXCEPT ![g] =
                          [fs EXCEPT ![1].pc = "filter", ![1].report = res.rec]]
                    /\ UNCHANGED <<status, out>>
               ELSE /\ frames' = [frames EXCEPT ![g] = fs]
                    /\ out' = [out EXCEPT ![g] = Append(out[g], res.rec)]
                    /\ status' = [status EXCEPT ![g] = "suspended"]

Inputs == <<program, traceMap, mode, strategy, consumers>>

Init ==
    /\ program \in Programs
    /\ traceMap \in TraceMaps
    /\ mode \in Modes
    /\ strategy \in Strategies
    /\ consumers \in 1..NumGens
    /\ variableStack = <<>>
    /\ status = [g \in Gens |-> "idle"]
    /\ frames = [g \in Gens |-> <<>>]
    /\ out = [g \in Gens |-> <<>>]
    /\ overlapped = FALSE

\* the consumer calls tracer.iterate...References(traceMap): a generator
\* object is created, none of its code runs yet
Start(g) ==
    /\ status[g] = "idle"
    /\ g <= consumers
    /\ \A h \in Gens : h < g => status[h] # "idle"
    /\ ~Running
    /\ frames' = [frames EXCEPT ![g] =
          <<CASE strategy = "global" -> EntryFrame("global", "keys")
              [] strategy = "cjs"    -> EntryFrame("cjs", "start")
              [] OTHER               -> EntryFrame("esm", "body")>>]
    /\ status' = [status EXCEPT ![g] = "fresh"]
    /\ overlapped' = (overlapped \/ \E h \in Gens : Live(h))
    /\ UNCHANGED <<Inputs, variableStack, out>>

\* the consumer calls next() on the generator
Pull(g) ==
    /\ status[g] \in {"fresh", "suspended"}
    /\ ~Running
    /\ status' = [status EXCEPT ![g] = "running"]
    /\ UNCHANGED <<Inputs, variableStack, frames, out, overlapped>>

Step(g, fn, res) ==
    /\ status[g] = "running"
    /\ Active(g).fn = fn
    /\ Commit(g, res)
    /\ UNCHANGED <<Inputs, overlapped>>

StepGlobal(g) ==
    /\ Step(g, "global", iterateGlobalReferences(Active(g)))
    /\ UNCHANGED variableStack

StepCjs(g) ==
    /\ Step(g, "cjs", iterateCjsReferences(Active(g)))
    /\ UNCHANGED variableStack

StepEsm(g) ==
    /\ Step(g, "esm", iterateEsmReferences(Active(g)))
    /\ UNCHANGED variableStack

StepProperty(g) ==
    /\ Step(g, "property", _iteratePropertyReferences(Active(g)))
    /\ UNCHANGED variableStack

StepLhs(g) ==
    /\ Step(g, "lhs", _iterateLhsReferences(Active(g)))
    /\ UNCHANGED variableStack

StepImport(g) ==
    /\ Step(g, "import", _iterateImportReferences(Active(g)))
    /\ UNCHANGED variableStack

\* this.variableStack.includes(variable)
Includes(stack, variable) == variable \in Range(stack)

\* the head of _iterateVariableReferences: the guard and the push
EnterVariable(g) ==
    /\ status[g] = "running"
    /\ Active(g).pc = "start"
    /\ IF Includes(variableStack, Active(g).variable)
       THEN /\ Step(g, "variable", Ret(Active(g)))
            /\ UNCHANGED variableStack
       ELSE /\ Step(g, "variable", Cont([Active(g) EXCEPT !.pc = "loop"]))
            /\ variableStack' = Append(variableStack, Active(g).variable)

\* its loop over variable.references and, at the end, the pop of its finally
StepVariable(g) ==
    /\ status[g] = "running"
    /\ Active(g).fn = "variable"
    /\ Active(g).pc # "start"
    /\ Active(g).variable # NoVar
    /\ LET res == _iterateVariableReferences(Active(g))
       IN  /\ Step(g, "variable", res)
           /\ variableStack' = IF res.kind = "ret" THEN Pop(variableStack, 1)
                               ELSE variableStack

\* the generator ends at once: every finally block of its suspended calls of
\* _iterateVariableReferences pops the stack, innermost first
Unwind(g, how) ==
    /\ variableStack' = Pop(variableStack, Len(Entered(g)))
    /\ frames' = [frames EXCEPT ![g] = <<>>]
    /\ status' = [status EXCEPT ![g] = how]
    /\ UNCHANGED <<Inputs, out, overlapped>>

\* variable.references of null: a TypeError leaves the generator
Throw(g) ==
    /\ status[g] = "running"
    /\ Active(g).fn = "variable"
    /\ Active(g).pc # "start"
    /\ Active(g).variable = NoVar
    /\ Unwind(g, "thrown")

\* the consumer calls return() on the generator (a break out of for-of)
Return(g) ==
    /\ status[g] \in {"fresh", "suspended"}
    /\ ~Running
    /\ Unwind(g, "returned")

\* the consumer drops the generator and never resumes it
Abandon(g) ==
    /\ status[g] = "suspended"
    /\ ~Running
    /\ status' = [status EXCEPT ![g] = "abandoned"]
    /\ UNCHANGED <<Inputs, variableStack, frames, out, overlapped>>

Next ==
    \E g \in Gens :
        \/ Start(g)
        \/ Pull(g)
        \/ StepGlobal(g)
        \/ StepCjs(g)
        \/ StepEsm(g)
        \/ EnterVariable(g)
        \/ StepVariable(g)
        \/ StepProperty(g)
        \/ StepLhs(g)
        \/ StepImport(g)
        \/ Throw(g)
        \/ Return(g)
        \/ Abandon(g)

Spec == Init /\ [][Next]_vars

\* one sequence on the tracer
InitSolo == Init /\ consumers = 1

SpecSolo == InitSolo /\ [][Next]_vars

-----------------------------------------------------------------------------
(* Properties.                                                             *)

\* the CALL matches generator g handed out
CallsOf(g) == SelectSeq(out[g], LAMBDA r : r.type = CALL)

\* the payload of the marker of a type at the node of the caller's map a
\* path names
MarkerAt(path, type) == Marker(TmAt(path), type)

IsPrefix(s, t) == Len(s) <= Len(t) /\ SubSeq(t, 1, Len(s)) = s

\* import x from "m"
BareImportProgram == Prog(<<Import("m", <<DefaultX>>)>>, HostGlobals)

\* the module "m" has a CommonJS-shaped map: no ESM marker
NoEsmMarker == <<"m">> \in DOMAIN traceMap /\ ~traceMap[<<"m">>].esm

\* no variable is entered twice in the call chain of generator g
NoReentry(g) ==
    \A i, j \in 1..Len(Entered(g)) :
        i # j => Entered(g)[i].variable # Entered(g)[j].variable

\* C1: every entry strategy pulled to exhaustion ends without throwing, and
\* a variable that is being propagated is never entered a second time in the
\* same call chain.
C1_CycleSafety ==
    \A g \in Gens : NoReentry(g) /\ status[g] \in {"idle", "fresh", "running",
                                                   "suspended", "done",
                                                   "returned", "abandoned"}

ClosurePrograms ==
    {DirectProgram, AliasProgram, DestructuringProgram, RenamingProgram}

\* C2: with G.x bound to a new variable by a variable initializer, to a
\* simple name or through an object pattern, a call through the new binding
\* yields exactly one CALL match, the call expression, with the path and the
\* entry the direct expression G.x.y() yields for the same trace map: the
\* path G, x, y and the CALL payload the map has there (and none when the
\* map has no such marker).
C2_AliasingClosure ==
    \A g \in Gens :
        (strategy = "global" /\ program \in ClosurePrograms /\ status[g] = "done")
        => IF <<"G", "x", "y">> \in DOMAIN traceMap
              /\ MarkerAt(<<"G", "x", "y">>, CALL) # 0
           THEN CallsOf(g) = <<Rec(Base(Len(program.stmts)) + 5,
                                   <<"G", "x", "y">>, CALL,
                                   MarkerAt(<<"G", "x", "y">>, CALL))>>
           ELSE CallsOf(g) = <<>>

\* var {y} = G.x; y() has been traced to its end and its call was matched
C2_Witness ==
    /\ program = DestructuringProgram
    /\ traceMap = GlobalMap
    /\ strategy = "global"
    /\ status[1] = "done"
    /\ Len(CallsOf(1)) = 1

\* a variable of the global scope that no definition declares
Undeclared(v) ==
    /\ v.scope = "global"
    /\ v.name \in ScopeSet("global")
    /\ Defs(v) = 0

\* the names iterateGlobalReferences looks up
RootNames ==
    {Keys(TmAt(<<>>))[k] : k \in 1..Len(Keys(TmAt(<<>>)))}
        \cup {globalObjectNames[k] : k \in 1..Len(globalObjectNames)}

\* C3: iterateGlobalReferences enters only variables of the global scope
\* that have no definition: the variable every branch of it starts from is
\* one, and when no name it looks up is one, it emits nothing.
C3_GlobalOnlyUndeclared ==
    \A g \in Gens :
        strategy = "global" =>
            /\ Len(frames[g]) >= 2 => Undeclared(frames[g][2].variable)
            /\ (\A n \in RootNames : ~Undeclared(Var("global", n)))
                   => out[g] = <<>>

\* function window() {} window.x was traced to its end against a map with
\* the key x, and nothing was matched
C3_Witness ==
    /\ program = ShadowProgram
    /\ traceMap = GlobalMap
    /\ strategy = "global"
    /\ status[1] = "done"
    /\ out[1] = <<>>

\* C4: the entry of every emitted record is the payload of the marker of the
\* record's type at the node of the caller's trace map that the record's
\* path leads to.
C4_PathEntryConsistent ==
    \A g \in Gens : \A k \in 1..Len(out[g]) :
        /\ out[g][k].path \in DOMAIN traceMap
        /\ out[g][k].entry = MarkerAt(out[g][k].path, out[g][k].type)

\* C5: one run of an entry strategy never hands out the same record (node,
\* path and type) twice.
C5_NoDuplicates ==
    \A g \in Gens : \A i, j \in 1..Len(out[g]) :
        (/\ out[g][i].node = out[g][j].node
         /\ out[g][i].path = out[g][j].path
         /\ out[g][i].type = out[g][j].type) => i = j

\* C6: where the resolver finds no variable for an identifier the branch
\* recurses no further and the entry strategy raises no error.
C6_UnboundDegrades ==
    \A g \in Gens : status[g] # "thrown"

\* C7: a sequence abandoned after some pulls leaves nothing behind: a run
\* started afterwards and pulled to its end yields what it would have
\* yielded otherwise, so it begins with the records the abandoned one gave.
C7_CancellationLeavesNothing ==
    \A g, h \in Gens :
        (status[h] = "abandoned" /\ status[g] = "done" /\ ~overlapped)
        => IsPrefix(out[h], out[g])

\* C8: two sequences of the same strategy over the same inputs, pulled in
\* any interleaved order, each yield what the sequence yields alone: pulled
\* to their ends they have yielded the same records.
C8_NoInterference ==
    \A g, h \in Gens :
        (status[g] = "done" /\ status[h] = "done") => out[g] = out[h]

\* the variables of a sequence of frames
VariablesOf(fs) == [k \in 1..Len(fs) |-> fs[k].variable]

RECURSIVE IsSubsequence(_, _)
IsSubsequence(s, t) ==
    IF s = <<>> THEN TRUE
    ELSE IF t = <<>> THEN FALSE
    ELSE IF Head(s) = Head(t) THEN IsSubsequence(Tail(s), Tail(t))
    ELSE IsSubsequence(s, Tail(t))

RECURSIVE EnteredCount(_)
EnteredCount(n) == IF n = 0 THEN 0 ELSE EnteredCount(n - 1) + Len(Entered(n))

\* C10: the stack lists, without repetition and in nesting order, exactly
\* the variables of the calls of _iterateVariableReferences in progress (and
\* so is empty when none is).
C10_StackDiscipline ==
    /\ Len(variableStack) = EnteredCount(NumGens)
    /\ \A i, j \in 1..Len(variableStack) :
           i # j => variableStack[i] # variableStack[j]
    /\ \A g \in Gens : IsSubsequence(VariablesOf(Entered(g)), variableStack)

\* C9 as stated: in strict mode, for a module without the ESM marker, no
\* match reached through a specifier has a path that is the module alone.
C9_BareDefaultSuppressed ==
    \A g \in Gens : \A k \in 1..Len(out[g]) :
        (strategy = "esm" /\ mode = "strict" /\ NoEsmMarker
           /\ Len(out[g][k].path) = 1)
        => Node(out[g][k].node).type \in IMPORT_TYPE

\* C9, amended: in strict mode, for a module without the ESM marker, no READ
\* match reached through a specifier has a path that is the module alone
\* (CALL and CONSTRUCT matches on the default binding itself are reported);
\* and a bare import x from "m" yields no match when the map of "m" has no
\* READ marker at its top level.
C9_BareDefaultReadSuppressed ==
    \A g \in Gens :
        (strategy = "esm" /\ mode = "strict" /\ NoEsmMarker) =>
            /\ \A k \in 1..Len(out[g]) :
                   (Len(out[g][k].path) = 1 /\ out[g][k].type = READ)
                   => Node(out[g][k].node).type \in IMPORT_TYPE
            /\ (program = BareImportProgram /\ MarkerAt(<<"m">>, READ) = 0)
                   => out[g] = <<>>

\* iterateEsmReferences holds a READ report of a default specifier whose
\* filtered path is the module alone, and is about to drop it
C9_Witness ==
    /\ mode = "strict"
    /\ NoEsmMarker
    /\ status[1] = "running"
    /\ frames[1][1].fn = "esm"
    /\ frames[1][1].pc = "filter"
    /\ frames[1][1].report.type = READ
    /\ Len(FilterDefault(frames[1][1].report.path)) = 1

====
